---------------------------- MODULE Spec2Model ----------------------------
(***************************************************************************)
(* A model of src/src/document.rs: the request option sets, the overwrite  *)
(* mode, the DocumentResponse decoder with its accessors, and the          *)
(* flattened Document envelope.                                            *)
(*                                                                         *)
(* Option<X> is modelled as a sequence: None is << >>, Some(x) is <<x>>.   *)
(* A JSON value is a tagged record; a JSON object is [t |-> "obj", o |-> f]*)
(* with f a function from the keys present to JSON values.                 *)
(***************************************************************************)
EXTENDS Integers, Sequences, FiniteSets, TLC

VARIABLES
    input,      \* the JSON value last handed to DocumentResponse::deserialize
    T,          \* the payload type parameter of that decode
    outcome,    \* "none" | "ok" (Ok(_) returned) | "panic" (an unwrap aborted)
    resp,       \* the DocumentResponse<T> value the caller holds
    acc,        \* the last accessor call on resp and what it returned
    opts,       \* an option set under construction / built
    ser,        \* the serialized form of opts, or of an overwrite mode
    doc,        \* a Document<T> envelope
    wire,       \* the envelope's serialized entries
    back        \* the result of deserializing wire

vars == <<input, T, outcome, resp, acc, opts, ser, doc, wire, back>>

decodeVars == <<input, T, outcome, resp, acc>>
optionVars == <<opts, ser>>
envelopeVars == <<doc, wire, back>>

-----------------------------------------------------------------------------
(* Bounds of the model.                                                     *)

\* how many distinct string atoms the inputs draw from
MaxStr == 2
\* how many distinct numbers the inputs draw from
MaxNum == 1

-----------------------------------------------------------------------------
(* Values.                                                                  *)

None == << >>
Some(x) == <<x>>

StrTable == <<"c/1", "r1", "k", "z">>
Strs == {StrTable[i] : i \in 1..MaxStr}
Nums == 1..MaxNum

JNull == [t |-> "null"]
JStr(s) == [t |-> "str", s |-> s]
JNum(n) == [t |-> "num", n |-> n]
JObj(f) == [t |-> "obj", o |-> f]
Absent == [t |-> "absent"]

\* a key's value, or Absent for a key left out
Opt(S) == S \cup {Absent}
\* the object holding exactly the keys c does not mark Absent
ObjectOf(c) == JObj([k \in {j \in DOMAIN c : c[j] /= Absent} |-> c[k]])

IsObj(v) == v.t = "obj"
Keys(v) == DOMAIN v.o

\* serde_json::Map::contains_key
contains_key(json, k) == k \in DOMAIN json

\* serde_json::Map::remove: the value removed (None when the key is absent) and
\* the map left
remove(json, k) ==
    IF k \in DOMAIN json
    THEN [val |-> Some(json[k]), map |-> [j \in (DOMAIN json) \ {k} |-> json[j]]]
    ELSE [val |-> None, map |-> json]


-----------------------------------------------------------------------------
(* DocumentResponse<T> and its decoder.                                     *)

\* the payload types T the decoder is instantiated with: a struct { x: i64 },
\* String, and serde_json::Value
PayloadTypes == {"XInt", "Str", "Value"}

\* DocumentResponse::Silent
Silent == [tag |-> "Silent"]
\* DocumentResponse::Response { header, old, new, _old_rev }
Response(h, o, n, r) == [tag |-> "Response", header |-> h, old |-> o, new |-> n, old_rev |-> r]
\* DocumentResponse::Err(ArangoError)
Err(e) == [tag |-> "Err", e |-> e]
\* no value held
NoResp == [tag |-> "NoResp"]

\* what a call of deserialize ends in: Ok(value), or a panic of an unwrap
Ok(r) == [kind |-> "ok", value |-> r]
Panic == [kind |-> "panic", value |-> NoResp]

\* Result::ok / is_ok on the results below
\* serde_json::from_value::<String>: only a JSON string is a String
from_value_String(v) ==
    IF v.t = "str" THEN [ok |-> TRUE, val |-> v.s] ELSE [ok |-> FALSE, val |-> ""]

\* T::deserialize(value) for the payload types of the model. A derived struct
\* ignores unknown fields and needs every field of its own with the right type.
T_deserialize(ty, v) ==
    CASE ty = "XInt" ->
            IF IsObj(v) /\ "x" \in Keys(v) /\ v.o["x"].t = "num"
            THEN [ok |-> TRUE, val |-> [ty |-> "XInt", x |-> v.o["x"].n]]
            ELSE [ok |-> FALSE, val |-> Absent]
      [] ty = "Str" ->
            IF v.t = "str"
            THEN [ok |-> TRUE, val |-> [ty |-> "Str", s |-> v.s]]
            ELSE [ok |-> FALSE, val |-> Absent]
      [] OTHER -> [ok |-> TRUE, val |-> [ty |-> "Value", j |-> v]]

\* Result::ok
ok(r) == IF r.ok THEN Some(r.val) ELSE None

\* the keys of a serde_json::Map in the order it iterates them (a BTreeMap)
KeyOrder == <<"_id", "_key", "_old_rev", "_rev", "code", "errorMessage", "new", "old", "x", "y">>

RECURSIVE JsonText(_)
RECURSIVE EntriesText(_, _, _)
\* the entries of object f from position i of KeyOrder on; first: none written yet
EntriesText(f, i, first) ==
    IF i > Len(KeyOrder) THEN ""
    ELSE IF KeyOrder[i] \in DOMAIN f
         THEN (IF first THEN "" ELSE ",") \o "\"" \o KeyOrder[i] \o "\":"
              \o JsonText(f[KeyOrder[i]]) \o EntriesText(f, i + 1, FALSE)
         ELSE EntriesText(f, i + 1, first)
\* Value::to_string (Display for serde_json::Value): the compact JSON text
JsonText(v) ==
    CASE v.t = "null" -> "null"
      [] v.t = "num" -> ToString(v.n)
      [] v.t = "str" -> "\"" \o v.s \o "\""
      [] OTHER -> "{" \o EntriesText(v.o, 1, TRUE) \o "}"

\* a decoder that discriminates on `_id` instead of `_key`
IsSilentShape_ById(json) == contains_key(json, "_id") /= TRUE

\* line 303: the object is a silent acknowledgement
IsSilentShape(json) == contains_key(json, "_key") /= TRUE

\* lines 307-309: remove(..).unwrap() then from_value(..).unwrap(): both succeed
UnwrapsOk(json, k) ==
    /\ remove(json, k).val /= None
    /\ from_value_String(remove(json, k).val[1]).ok

\* a header whose _id and _key are filled from each other's key
HeaderOf_Swapped(json) ==
    [k \in {"_id", "_key", "_rev"} |->
        from_value_String(remove(json, IF k = "_id" THEN "_key"
                                       ELSE IF k = "_key" THEN "_id" ELSE k).val[1]).val]

\* lines 306-310: the header's three fields
HeaderOf(json) ==
    [k \in {"_id", "_key", "_rev"} |-> from_value_String(remove(json, k).val[1]).val]

\* a slot extraction that reads `old` whatever slot is asked for
ExtractSlot_CopyPaste(ty, json, k) ==
    IF contains_key(json, "old")
    THEN ok(T_deserialize(ty, remove(json, "old").val[1]))
    ELSE None

\* lines 312-322: if json.contains_key(k) { T::deserialize(json.remove(k).unwrap()).ok() } else { None }
ExtractSlot(ty, json, k) ==
    IF contains_key(json, k)
    THEN ok(T_deserialize(ty, remove(json, k).val[1]))
    ELSE None

\* lines 323-327: if json.contains_key("_old_rev") { Some(json.remove("_old_rev").unwrap().to_string()) } else { None }
ExtractOldRev(json) ==
    IF contains_key(json, "_old_rev")
    THEN Some(JsonText(remove(json, "_old_rev").val[1]))
    ELSE None

\* lines 303-335 of deserialize, on the object's map
deserialize_object(ty, json) ==
    IF IsSilentShape(json) THEN Ok(Silent)
    ELSE IF ~(UnwrapsOk(json, "_id") /\ UnwrapsOk(json, "_key") /\ UnwrapsOk(json, "_rev"))
         THEN Panic
         ELSE LET j1 == remove(remove(remove(json, "_id").map, "_key").map, "_rev").map
                  j2 == remove(j1, "old").map
                  j3 == remove(j2, "new").map
              IN Ok(Response(HeaderOf(json), ExtractSlot(ty, j1, "old"),
                             ExtractSlot(ty, j2, "new"), ExtractOldRev(j3)))

\* a decoder that turns a body carrying an error code into the Err variant
deserialize_ErrVariant(ty, v) ==
    IF ~IsObj(v) THEN Panic
    ELSE IF contains_key(v.o, "code") THEN Ok(Err(v.o["code"].n))
         ELSE deserialize_object(ty, v.o)

\* DocumentResponse::<T>::deserialize on an already parsed JSON value:
\* line 301, obj.as_object_mut().unwrap(), then the object's decode
deserialize(ty, v) ==
    IF ~IsObj(v) THEN Panic ELSE deserialize_object(ty, v.o)

\* an is_silent that only rules out Response
is_silent_NotResponse(r) == r.tag /= "Response"

\* the accessors
is_silent(r) == IF r.tag = "Silent" THEN TRUE ELSE FALSE
has_response(r) == IF r.tag = "Response" THEN TRUE ELSE FALSE
header(r) == IF r.tag = "Response" THEN Some(r.header) ELSE None
old_doc(r) == IF r.tag = "Response" THEN r.old ELSE None
new_doc(r) == IF r.tag = "Response" THEN r.new ELSE None
old_rev(r) == IF r.tag = "Response" THEN r.old_rev ELSE None

NoCall == [fn |-> "none"]

-----------------------------------------------------------------------------
(* The request option sets and the overwrite mode.                          *)

JBool(b) == [t |-> "bool", b |-> b]

LowerLetters == <<"a", "b", "c", "d", "e", "f", "g", "h", "i", "j", "k", "l", "m",
                  "n", "o", "p", "q", "r", "s", "t", "u", "v", "w", "x", "y", "z">>
UpperLetters == <<"A", "B", "C", "D", "E", "F", "G", "H", "I", "J", "K", "L", "M",
                  "N", "O", "P", "Q", "R", "S", "T", "U", "V", "W", "X", "Y", "Z">>

\* char::to_ascii_uppercase / to_ascii_lowercase
to_ascii_uppercase(c) ==
    IF \E i \in 1..26 : LowerLetters[i] = c
    THEN UpperLetters[CHOOSE i \in 1..26 : LowerLetters[i] = c]
    ELSE c
to_ascii_lowercase(c) ==
    IF \E i \in 1..26 : UpperLetters[i] = c
    THEN LowerLetters[CHOOSE i \in 1..26 : UpperLetters[i] = c]
    ELSE c

RECURSIVE Join(_)
\* the string made of a sequence of characters
Join(cs) == IF cs = << >> THEN "" ELSE Head(cs) \o Join(Tail(cs))

RECURSIVE Pascal(_, _)
\* serde's camelCase for a snake_case field name: every `_` is dropped and the
\* character after it upper-cased (the first character stays lower case)
Pascal(cs, capitalize) ==
    IF cs = << >> THEN << >>
    ELSE IF Head(cs) = "_" THEN Pascal(Tail(cs), TRUE)
    ELSE IF capitalize THEN <<to_ascii_uppercase(Head(cs))>> \o Pascal(Tail(cs), FALSE)
    ELSE <<Head(cs)>> \o Pascal(Tail(cs), FALSE)
camelCase(cs) ==
    LET p == Pascal(cs, TRUE)
    IN IF p = << >> THEN p ELSE <<to_ascii_lowercase(Head(p))>> \o Tail(p)

\* the fields of the option structs, in declaration order
wait_for_sync == <<"w", "a", "i", "t", "_", "f", "o", "r", "_", "s", "y", "n", "c">>
return_new == <<"r", "e", "t", "u", "r", "n", "_", "n", "e", "w">>
return_old == <<"r", "e", "t", "u", "r", "n", "_", "o", "l", "d">>
silent == <<"s", "i", "l", "e", "n", "t">>
overwrite == <<"o", "v", "e", "r", "w", "r", "i", "t", "e">>
keep_null == <<"k", "e", "e", "p", "_", "n", "u", "l", "l">>
merge_objects == <<"m", "e", "r", "g", "e", "_", "o", "b", "j", "e", "c", "t", "s">>
ignore_revs == <<"i", "g", "n", "o", "r", "e", "_", "r", "e", "v", "s">>

\* DocumentInsertOptions (overwrite_mode is compiled in only under cfg(arango3_7))
DocumentInsertOptions == <<wait_for_sync, return_new, return_old, silent, overwrite>>
DocumentUpdateOptions ==
    <<keep_null, merge_objects, wait_for_sync, ignore_revs, return_new, return_old, silent>>
DocumentReplaceOptions == <<wait_for_sync, ignore_revs, return_new, return_old, silent>>
DocumentRemoveOptions == <<wait_for_sync, return_old, silent>>

OptionKinds == {"insert", "update", "replace", "remove"}
Fields(kind) ==
    CASE kind = "insert" -> DocumentInsertOptions
      [] kind = "update" -> DocumentUpdateOptions
      [] kind = "replace" -> DocumentReplaceOptions
      [] OTHER -> DocumentRemoveOptions

\* DocumentOverwriteMode's variants, by name
Ignore == <<"I", "g", "n", "o", "r", "e">>
Replace == <<"R", "e", "p", "l", "a", "c", "e">>
Update == <<"U", "p", "d", "a", "t", "e">>
Conflict == <<"C", "o", "n", "f", "l", "i", "c", "t">>
DocumentOverwriteMode == {Ignore, Replace, Update, Conflict}

\* #[derive(Serialize)] #[serde(rename_all = "camelCase")] on a struct of
\* Option<bool> fields with no skip_serializing_if, written by serde_json: every
\* field is an entry, None as null and Some(b) as b
SerializeOptions(kind, f) ==
    JObj([k \in {Join(camelCase(Fields(kind)[i])) : i \in 1..Len(Fields(kind))} |->
            LET i == CHOOSE n \in 1..Len(Fields(kind)) : Join(camelCase(Fields(kind)[n])) = k
            IN IF f[i] = None THEN JNull ELSE JBool(f[i][1])])

\* #[derive(Serialize)] on the enum, with no rename attribute: a unit variant is
\* written as the string of its name
SerializeOverwriteMode(m) == JStr(Join(m))

NoOpts == [kind |-> "none"]
NoSer == Absent

\* X::builder(): every field unset
Builder ==
    /\ opts = NoOpts
    /\ \E kind \in OptionKinds :
          opts' = [kind |-> kind, f |-> [i \in 1..Len(Fields(kind)) |-> None], built |-> FALSE]
    /\ UNCHANGED <<ser, decodeVars, envelopeVars>>

\* a setter of the builder (strip_option): a field is set at most once
Setter ==
    /\ opts.kind \in OptionKinds
    /\ ~opts.built
    /\ \E i \in 1..Len(opts.f), b \in BOOLEAN :
          /\ opts.f[i] = None
          /\ opts' = [opts EXCEPT !.f[i] = Some(b)]
    /\ UNCHANGED <<ser, decodeVars, envelopeVars>>

\* build(); X::default() is builder().build()
Build ==
    /\ opts.kind \in OptionKinds
    /\ ~opts.built
    /\ opts' = [opts EXCEPT !.built = TRUE]
    /\ UNCHANGED <<ser, decodeVars, envelopeVars>>

\* the built option set is serialized
SerializeBuilt ==
    /\ opts.kind \in OptionKinds
    /\ opts.built
    /\ ser = NoSer
    /\ ser' = SerializeOptions(opts.kind, opts.f)
    /\ UNCHANGED <<opts, decodeVars, envelopeVars>>

\* an overwrite mode is serialized
SerializeMode ==
    /\ opts = NoOpts
    /\ \E m \in DocumentOverwriteMode :
          /\ opts' = [kind |-> "overwrite_mode", mode |-> m]
          /\ ser' = SerializeOverwriteMode(m)
    /\ UNCHANGED <<decodeVars, envelopeVars>>

\* the value and its serialized form are dropped
DropOptions ==
    /\ opts /= NoOpts
    /\ opts' = NoOpts
    /\ ser' = NoSer
    /\ UNCHANGED <<decodeVars, envelopeVars>>

OptionsNext ==
    \/ Builder
    \/ Setter
    \/ Build
    \/ SerializeBuilt
    \/ SerializeMode
    \/ DropOptions

-----------------------------------------------------------------------------
(* The Document<T> envelope: header and payload flattened into one object.  *)

HeaderFields == <<"_id", "_key", "_rev">>

\* a DocumentHeader
Header(id, key, rev) ==
    [k \in {"_id", "_key", "_rev"} |-> IF k = "_id" THEN id ELSE IF k = "_key" THEN key ELSE rev]

\* a Document<T>
Document(h, d) == [header |-> h, document |-> d]

\* Document::new(data): an empty header
Document_new(data) == Document(Header("", "", ""), data)

Entry(k, v) == [k |-> k, v |-> v]

RECURSIVE HeaderEntries(_, _)
\* DocumentHeader's Serialize: a field is skipped when String::is_empty
HeaderEntries(h, i) ==
    IF i > Len(HeaderFields) THEN << >>
    ELSE (IF h[HeaderFields[i]] = "" THEN << >>
          ELSE <<Entry(HeaderFields[i], JStr(h[HeaderFields[i]]))>>)
         \o HeaderEntries(h, i + 1)

RECURSIVE MapEntries(_, _)
\* the entries of a map, in the order it iterates them
MapEntries(f, i) ==
    IF i > Len(KeyOrder) THEN << >>
    ELSE (IF KeyOrder[i] \in DOMAIN f THEN <<Entry(KeyOrder[i], f[KeyOrder[i]])>> ELSE << >>)
         \o MapEntries(f, i + 1)

\* T's Serialize into the flattened map: a struct { x } writes its field, a
\* serde_json::Value object writes its entries
PayloadEntries(d) ==
    IF d.ty = "XInt" THEN <<Entry("x", JNum(d.x))>> ELSE MapEntries(d.j.o, 1)

\* Document<T>'s Serialize: #[serde(flatten)] on both fields writes the header's
\* entries and then the payload's into one map
SerializeDocument(d) == HeaderEntries(d.header, 1) \o PayloadEntries(d.document)

\* the entries a flattened field does not consume stay for the next field
LeftAfter_NoTake(entries, fields) == entries

\* FlatMapDeserializer::deserialize_struct: the entries whose key is one of the
\* struct's fields are taken out of the buffer
LeftAfter(entries, fields) ==
    LET Other(e) == ~(e.k \in fields) IN SelectSeq(entries, Other)

\* the entries a struct with these fields is handed
TakenBy(entries, fields) ==
    LET Mine(e) == e.k \in fields IN SelectSeq(entries, Mine)

DecodeOk(v) == [ok |-> TRUE, val |-> v]
DecodeErr == [ok |-> FALSE, val |-> Absent]

\* some field occurs twice among the entries
Duplicate(es) == \E i, j \in 1..Len(es) : i /= j /\ es[i].k = es[j].k
\* the value of field k among the entries
ValueOf(es, k) == es[CHOOSE i \in 1..Len(es) : es[i].k = k].v
Has(es, k) == \E i \in 1..Len(es) : es[i].k = k

\* DocumentHeader's derived Deserialize: a duplicate field, a missing field and
\* a value that is not a string are errors
DeserializeHeader(es) ==
    IF Duplicate(es) THEN DecodeErr
    ELSE IF \E k \in {"_id", "_key", "_rev"} : ~Has(es, k) THEN DecodeErr
    ELSE IF \E k \in {"_id", "_key", "_rev"} : ValueOf(es, k).t /= "str" THEN DecodeErr
    ELSE DecodeOk([k \in {"_id", "_key", "_rev"} |-> ValueOf(es, k).s])

RECURSIVE MapOf(_)
\* a map built by inserting the entries in order: a later entry replaces an
\* earlier one of the same key
MapOf(es) ==
    IF es = << >> THEN << >>
    ELSE LET m == MapOf(SubSeq(es, 1, Len(es) - 1))
             e == es[Len(es)]
         IN [k \in DOMAIN m \cup {e.k} |-> IF k = e.k THEN e.v ELSE m[k]]

\* T's Deserialize from the flattened map: a struct { x: i64 } takes its field
\* (duplicate, missing, not a number: errors), a serde_json::Value takes every
\* entry left
DeserializePayload(ty, es) ==
    IF ty = "XInt"
    THEN LET mine == TakenBy(es, {"x"})
         IN IF Len(mine) /= 1 \/ mine[1].v.t /= "num" THEN DecodeErr
            ELSE DecodeOk([ty |-> "XInt", x |-> mine[1].v.n])
    ELSE DecodeOk([ty |-> "Value", j |-> JObj(MapOf(es))])

\* Document<T>'s derived Deserialize: the object's entries are buffered, the
\* header is deserialized from them first, then the payload from what is left
DeserializeDocument(ty, es) ==
    LET h == DeserializeHeader(TakenBy(es, {"_id", "_key", "_rev"}))
        d == DeserializePayload(ty, LeftAfter(es, {"_id", "_key", "_rev"}))
    IN IF h.ok /\ d.ok THEN DecodeOk(Document(h.val, d.val)) ELSE DecodeErr

\* the payloads tried: struct values, and objects that may carry a field named
\* like an identity field
StructPayloads == {[ty |-> "XInt", x |-> n] : n \in Nums}
KeyPayloadVals == {JStr(s) : s \in Strs} \cup {JNum(1)}
ValuePayloads ==
    {[ty |-> "Value", j |-> ObjectOf([k \in {"x", "y", "_key"} |->
                                         IF k = "x" THEN x ELSE IF k = "y" THEN y ELSE key])] :
        x \in Opt({JNum(n) : n \in Nums}), y \in Opt({JStr(StrTable[1])}),
        key \in Opt(KeyPayloadVals)}
Payloads == StructPayloads \cup ValuePayloads

NoDoc == [header |-> Absent]
NoWire == <<Absent>>
NoBack == [ok |-> FALSE, val |-> [t |-> "none"]]

\* Document::new(data)
NewDocument ==
    /\ doc = NoDoc
    /\ \E d \in Payloads : doc' = Document_new(d)
    /\ UNCHANGED <<wire, back, decodeVars, optionVars>>

\* a Document built with its public fields, the identity given
MakeDocument ==
    /\ doc = NoDoc
    /\ \E id \in Strs \cup {""}, key \in Strs \cup {""}, rev \in Strs \cup {""}, d \in Payloads :
          doc' = Document(Header(id, key, rev), d)
    /\ UNCHANGED <<wire, back, decodeVars, optionVars>>

\* the envelope is serialized
SerializeDoc ==
    /\ doc /= NoDoc
    /\ wire = NoWire
    /\ wire' = SerializeDocument(doc)
    /\ UNCHANGED <<doc, back, decodeVars, optionVars>>

\* the serialized object is deserialized into the same envelope type
DeserializeDoc ==
    /\ wire /= NoWire
    /\ back = NoBack
    /\ back' = DeserializeDocument(doc.document.ty, wire)
    /\ UNCHANGED <<doc, wire, decodeVars, optionVars>>

\* the envelope is dropped
DropDoc ==
    /\ doc /= NoDoc
    /\ doc' = NoDoc
    /\ wire' = NoWire
    /\ back' = NoBack
    /\ UNCHANGED <<decodeVars, optionVars>>

EnvelopeNext ==
    \/ NewDocument
    \/ MakeDocument
    \/ SerializeDoc
    \/ DeserializeDoc
    \/ DropDoc

-----------------------------------------------------------------------------
(* The inputs the decoder is run on.                                        *)

\* values tried under `_id`, `_key`, `_rev`: strings, and a number (not a string)
IdVals == {JStr(s) : s \in Strs} \cup {JNum(1)}
\* nested objects tried under `old` and `new`
XObj(n) == JObj([k \in {"x"} |-> JNum(n)])
XYObj == JObj([k \in {"x", "y"} |-> JNum(1)])
YObj == JObj([k \in {"y"} |-> JNum(1)])
SlotVals == {XObj(n) : n \in Nums} \cup {XYObj, YObj, JStr(StrTable[1])}
\* values tried under `_old_rev`
OldRevVals == {JStr(s) : s \in Strs} \cup {JNum(n) : n \in Nums} \cup {JNull}
\* a server error body's fields, present together or not at all
ErrFields == {"code", "errorMessage"}
ErrVal(k) == IF k = "code" THEN JNum(1) ELSE JStr("z")

TopKeys == {"_id", "_key", "_rev", "old", "new", "_old_rev"} \cup ErrFields

Choice(id, key, rev, old, new, orev, e) ==
    [k \in TopKeys |->
        CASE k = "_id" -> id
          [] k = "_key" -> key
          [] k = "_rev" -> rev
          [] k = "old" -> old
          [] k = "new" -> new
          [] k = "_old_rev" -> orev
          [] OTHER -> IF e THEN ErrVal(k) ELSE Absent]

\* JSON values that are not objects
NonObjects == {JNull, JStr(StrTable[1])}

NoInput == Absent
NoType == "none"

-----------------------------------------------------------------------------
(* The decoder's actions.                                                   *)

Idle == outcome = "none" /\ resp = NoResp

\* serde_json::from_value::<DocumentResponse<T>>(v): one call of deserialize
Decode(ty, v) ==
    /\ input' = v
    /\ T' = ty
    /\ outcome' = deserialize(ty, v).kind
    /\ resp' = deserialize(ty, v).value
    /\ acc' = NoCall
    /\ UNCHANGED <<optionVars, envelopeVars>>

DeserializeObject ==
    /\ Idle
    /\ \E ty \in PayloadTypes, id \in Opt(IdVals), key \in Opt(IdVals), rev \in Opt(IdVals),
       old \in Opt(SlotVals), new \in Opt(SlotVals), orev \in Opt(OldRevVals), e \in BOOLEAN :
         Decode(ty, ObjectOf(Choice(id, key, rev, old, new, orev, e)))

DeserializeNonObject ==
    /\ Idle
    /\ \E ty \in PayloadTypes, v \in NonObjects : Decode(ty, v)

\* the transport layer builds DocumentResponse::Err(e) itself
ErrCodes == {404, 412}
MakeErr ==
    /\ Idle
    /\ \E c \in ErrCodes : resp' = Err(c)
    /\ UNCHANGED <<input, T, outcome, acc, optionVars, envelopeVars>>

Call(fn, res) ==
    /\ resp /= NoResp
    /\ acc' = [fn |-> fn, res |-> res]
    /\ UNCHANGED <<input, T, outcome, resp, optionVars, envelopeVars>>

CallIsSilent == Call("is_silent", is_silent(resp))
CallHasResponse == Call("has_response", has_response(resp))
CallHeader == Call("header", header(resp))
CallOldDoc == Call("old_doc", old_doc(resp))
CallNewDoc == Call("new_doc", new_doc(resp))
CallOldRev == Call("old_rev", old_rev(resp))

\* the value (or the panic) is dropped and the caller decodes the next body
Drop ==
    /\ ~Idle
    /\ input' = NoInput
    /\ T' = NoType
    /\ outcome' = "none"
    /\ resp' = NoResp
    /\ acc' = NoCall
    /\ UNCHANGED <<optionVars, envelopeVars>>

DecodeNext ==
    \/ DeserializeObject
    \/ DeserializeNonObject
    \/ MakeErr
    \/ CallIsSilent
    \/ CallHasResponse
    \/ CallHeader
    \/ CallOldDoc
    \/ CallNewDoc
    \/ CallOldRev
    \/ Drop

Init ==
    /\ input = NoInput
    /\ T = NoType
    /\ outcome = "none"
    /\ resp = NoResp
    /\ acc = NoCall
    /\ opts = NoOpts
    /\ ser = NoSer
    /\ doc = NoDoc
    /\ wire = NoWire
    /\ back = NoBack

SpecDecode == Init /\ [][DecodeNext]_vars
SpecOptions == Init /\ [][OptionsNext]_vars
SpecEnvelope == Init /\ [][EnvelopeNext]_vars

-----------------------------------------------------------------------------
(* Properties of the decoder.                                               *)

Triple == {"_id", "_key", "_rev"}

\* a decode of a JSON object has run
DecodedObject == outcome /= "none" /\ IsObj(input)

\* `_id`, `_key` and `_rev` are all present as strings
ValidTriple(v) == \A k \in Triple : k \in Keys(v) /\ v.o[k].t = "str"

\* `_key` is present, and `_id` or `_rev` is missing or one of the three is not a string
Malformed(v) == "_key" \in Keys(v) /\ ~ValidTriple(v)

\* C1: decoding a JSON object yields Silent if and only if the object has no
\* `_key` field, whatever other keys it carries and whatever the payload type
\* (so decoding {} yields Silent).
C1_SilentIffNoKey ==
    DecodedObject =>
        ((outcome = "ok" /\ resp = Silent) <=> ~("_key" \in Keys(input)))

\* C1 witness: an object that carries `_id`, `_rev` and `old` but no `_key` was
\* decoded to Silent.
C1_Witness ==
    /\ DecodedObject
    /\ {"_id", "_rev", "old"} \subseteq Keys(input)
    /\ ~("_key" \in Keys(input))
    /\ resp = Silent

\* C2 (as claimed): decoding an object with `_key` present and `_id` or `_rev`
\* missing, or a non-string among `_id`/`_key`/`_rev`, returns a decode error to
\* the caller: it neither panics nor yields Silent or a Response.
C2_MalformedIsDecodeError ==
    (DecodedObject /\ Malformed(input)) => outcome = "err"

\* C3: decoding an object whose `_id`, `_key`, `_rev` are all strings yields a
\* Response whose header carries exactly those values in the matching fields,
\* and old, new, oldRevision are None when `old`, `new`, `_old_rev` are absent.
C3_HeaderCarriesTriple ==
    (DecodedObject /\ ValidTriple(input)) =>
        /\ outcome = "ok"
        /\ resp.tag = "Response"
        /\ \A k \in Triple : resp.header[k] = input.o[k].s
        /\ (Keys(input) \cap {"old", "new", "_old_rev"} = {}) =>
              (resp.old = None /\ resp.new = None /\ resp.old_rev = None)

\* C3 witness: an object with exactly the identity triple, `_id` and `_key`
\* different, was decoded to a Response.
C3_Witness ==
    /\ DecodedObject
    /\ Keys(input) = Triple
    /\ ValidTriple(input)
    /\ input.o["_id"] /= input.o["_key"]
    /\ outcome = "ok"
    /\ resp.tag = "Response"

\* the slot the claim expects for key k: Some(parsed value) when the key is
\* present and its value parses as the payload type, None otherwise
ExpectedSlot(ty, v, k) ==
    IF k \in Keys(v) /\ T_deserialize(ty, v.o[k]).ok
    THEN Some(T_deserialize(ty, v.o[k]).val)
    ELSE None

\* C4: with a valid identity triple, `old` and `new` are extracted independently
\* and best-effort: a slot is Some(v) exactly when its key is present and parses
\* as T, None otherwise; an unparseable slot never fails the decode and changes
\* neither the other slot nor the header.
C4_SlotsBestEffort ==
    (DecodedObject /\ ValidTriple(input)) =>
        /\ outcome = "ok"
        /\ resp.tag = "Response"
        /\ resp.old = ExpectedSlot(T, input, "old")
        /\ resp.new = ExpectedSlot(T, input, "new")
        /\ \A k \in Triple : resp.header[k] = input.o[k].s

\* C4 witness: `old` is present and does not parse as T while `new` is present
\* and parses; the decode gave old = None and new = Some(_).
C4_Witness ==
    /\ DecodedObject
    /\ ValidTriple(input)
    /\ T = "XInt"
    /\ {"old", "new"} \subseteq Keys(input)
    /\ input.o["old"].t = "str"
    /\ input.o["new"] = XYObj
    /\ outcome = "ok"
    /\ resp.old = None
    /\ resp.new = Some([ty |-> "XInt", x |-> 1])

\* C5 (as claimed): with a valid identity triple, oldRevision is Some(s) exactly
\* when `_old_rev` is present with a JSON string value, s being the string's own
\* characters; it is None when `_old_rev` is absent or not a string.
C5_OldRevIsPlainString ==
    (DecodedObject /\ ValidTriple(input)) =>
        /\ outcome = "ok"
        /\ resp.tag = "Response"
        /\ resp.old_rev = IF "_old_rev" \in Keys(input) /\ input.o["_old_rev"].t = "str"
                          THEN Some(input.o["_old_rev"].s)
                          ELSE None

\* C6: the accessors are total: is_silent is true iff the value is Silent,
\* has_response iff it is Response, both false for Err; header, old_doc, new_doc
\* and old_rev are None for Silent and Err and the stored field for Response.
C6_AccessorsTotal ==
    /\ acc.fn = "is_silent" => acc.res = (resp.tag = "Silent")
    /\ acc.fn = "has_response" => acc.res = (resp.tag = "Response")
    /\ (acc.fn \in {"is_silent", "has_response"} /\ resp.tag = "Err") => acc.res = FALSE
    /\ (acc.fn \in {"header", "old_doc", "new_doc", "old_rev"} /\ resp.tag /= "Response")
          => acc.res = None
    /\ (acc.fn = "header" /\ resp.tag = "Response") => acc.res = Some(resp.header)
    /\ (acc.fn = "old_doc" /\ resp.tag = "Response") => acc.res = resp.old
    /\ (acc.fn = "new_doc" /\ resp.tag = "Response") => acc.res = resp.new
    /\ (acc.fn = "old_rev" /\ resp.tag = "Response") => acc.res = resp.old_rev

\* C6 witness: is_silent was called on an Err value and returned false.
C6_Witness ==
    /\ resp.tag = "Err"
    /\ acc.fn = "is_silent"
    /\ acc.res = FALSE

\* C10: the decoder never produces Err: a successful decode is Silent or
\* Response, decided by `_key` alone; an error body without `_key` decodes to
\* Silent, one with the identity triple decodes to a Response carrying the
\* triple, the error fields being ignored.
C10_NeverErr ==
    DecodedObject =>
        /\ resp.tag /= "Err"
        /\ outcome = "ok" => resp.tag \in {"Silent", "Response"}
        /\ (ErrFields \subseteq Keys(input) /\ ~("_key" \in Keys(input)))
              => (outcome = "ok" /\ resp = Silent)
        /\ (ErrFields \subseteq Keys(input) /\ ValidTriple(input))
              => /\ outcome = "ok"
                 /\ resp.tag = "Response"
                 /\ \A k \in Triple : resp.header[k] = input.o[k].s

\* C10 witness: a body carrying only the error code and message was decoded to
\* Silent.
C10_Witness ==
    /\ DecodedObject
    /\ Keys(input) = ErrFields
    /\ outcome = "ok"
    /\ resp = Silent

-----------------------------------------------------------------------------
(* Properties of the option sets and the overwrite mode.                    *)

\* the camelCase names the server's API gives the fields
ApiNames(kind) ==
    CASE kind = "insert" -> <<"waitForSync", "returnNew", "returnOld", "silent", "overwrite">>
      [] kind = "update" -> <<"keepNull", "mergeObjects", "waitForSync", "ignoreRevs",
                              "returnNew", "returnOld", "silent">>
      [] kind = "replace" -> <<"waitForSync", "ignoreRevs", "returnNew", "returnOld", "silent">>
      [] OTHER -> <<"waitForSync", "returnOld", "silent">>

Serialized == opts.kind \in OptionKinds /\ ser /= NoSer

\* C7 (as claimed): the serialized form of an option set contains exactly the
\* explicitly set fields, under their camelCase names with their literal value,
\* and no entry at all (neither null nor a default) for an unset field; a
\* default instance serializes with no fields.
C7_OnlySetFieldsSerialized ==
    Serialized =>
        /\ Keys(ser) = {ApiNames(opts.kind)[i] : i \in {n \in 1..Len(opts.f) : opts.f[n] /= None}}
        /\ \A i \in 1..Len(opts.f) :
              opts.f[i] /= None => ser.o[ApiNames(opts.kind)[i]] = JBool(opts.f[i][1])

\* the lowercase tags of the server's API
ApiTag(m) ==
    CASE m = Ignore -> "ignore"
      [] m = Replace -> "replace"
      [] m = Update -> "update"
      [] OTHER -> "conflict"

\* C9 (as claimed): DocumentOverwriteMode serializes each of its four values to
\* its lowercase tag name, "ignore", "replace", "update", "conflict".
C9_LowercaseTags ==
    opts.kind = "overwrite_mode" => ser = JStr(ApiTag(opts.mode))

-----------------------------------------------------------------------------
(* Properties of the Document envelope.                                     *)

RoundTripped == doc /= NoDoc /\ wire /= NoWire /\ back /= NoBack

NonEmptyIdentity == \A k \in {"_id", "_key", "_rev"} : doc.header[k] /= ""

\* the payload's own field names
PayloadKeys(d) == IF d.ty = "XInt" THEN {"x"} ELSE Keys(d.j)

WireKeys == {wire[i].k : i \in 1..Len(wire)}

\* C8 (as claimed): for every envelope with non-empty `_id`, `_key`, `_rev` and
\* an object payload, serializing gives one flat object and deserializing it
\* into the same envelope type reproduces the identity and the payload.
C8_RoundTrip ==
    (RoundTripped /\ NonEmptyIdentity) => (back.ok /\ back.val = doc)

\* C8 (amended): the same, for envelopes whose payload has no field named
\* `_id`, `_key` or `_rev`: the serialized object holds the identity keys and
\* the payload's fields side by side, each once, and the round trip reproduces
\* the envelope.
C8_RoundTripDisjoint ==
    (RoundTripped /\ NonEmptyIdentity
        /\ PayloadKeys(doc.document) \cap {"_id", "_key", "_rev"} = {}) =>
        /\ WireKeys = {"_id", "_key", "_rev"} \cup PayloadKeys(doc.document)
        /\ ~Duplicate(wire)
        /\ back.ok
        /\ back.val = doc

\* C8 witness: an envelope with a non-empty identity and the object payload
\* {x: 1, y: ..} went through the round trip.
C8_Witness ==
    /\ RoundTripped
    /\ NonEmptyIdentity
    /\ doc.document.ty = "Value"
    /\ PayloadKeys(doc.document) = {"x", "y"}
    /\ back.ok
    /\ back.val = doc
=============================================================================
